---- MODULE Spec2Model ----
(***************************************************************************)
(* Concurrent person tracking over a batch of videos                       *)
(* (tracking_and_processing_concurrent.py).                                *)
(*                                                                         *)
(* process_multiple_videos submits one process_single_video task per video *)
(* to a ThreadPoolExecutor, collects the futures as they complete and      *)
(* writes one combined summary.  Every task decodes its video, offers one  *)
(* frame in ten to the tracker, and records each newly seen track id once, *)
(* numbering it with a per-video count and with the process-wide           *)
(* ThreadSafeCounter.                                                      *)
(*                                                                         *)
(* Videos are identified by their index in video_paths.  Confidences are   *)
(* in tenths (4 stands for 0.4).  The external collaborators (the tracker, *)
(* the t-shirt model, the decoder) are modelled by their results: the      *)
(* tracker's boxes for a frame are part of the video's content, a call may *)
(* raise, the t-shirt model may or may not supply an annotated plot.       *)
(***************************************************************************)
EXTENDS Integers, Sequences, FiniteSets, TLC

\* ------------------------------------------------------------------ bounds
\* Spec: at most MaxVideos videos in one run.
MaxVideos == 2
\* Spec: every video of a batch that opens decodes BatchFrames frames and
\* shows one tracked box, of track id 1, on every sampled frame.
BatchFrames == 10
\* SpecVideo: the single video decodes at most MaxFrames frames and shows
\* at most MaxDetections tracked boxes in all.
MaxFrames == 20
MaxDetections == 2

\* ------------------------------------------------------- program constants
\* frame_number % 10 (line 76)
Stride == 10
\* box.conf[0] > 0.4, in tenths (line 98)
PersonConf == 4
\* int(box.cls[0]) == 0, class 0 = person (line 98)
PersonClass == 0
\* person_roi.shape[k] < 50 (line 115)
MinCrop == 50
\* min(len(video_paths), os.cpu_count() or 1, 4) (line 217)
WorkerCap == 4
\* max_workers=3 in the main block (line 304)
MainWorkers == 3

VARIABLES
    \* ---- inputs of process_multiple_videos and its environment
    video_paths,        \* sequence of video files (their content)
    max_workers_arg,    \* <<>> for None, <<k>> for max_workers=k
    cpu_count,          \* <<>> when os.cpu_count() is None, <<k>> otherwise
    \* ---- process_multiple_videos
    opc,                \* where the orchestrator is
    max_workers,        \* resolved pool size
    submitted,          \* number of tasks submitted so far
    collected,          \* futures as_completed has yielded so far, in order
    all_results,        \* list of result summaries
    combined_results,   \* <<>> until built, then <<the combined summary>>
    combined_files,     \* number of combined JSON files written
    \* ---- global_person_counter (ThreadSafeCounter)
    counter_value,      \* _value
    counter_lock,       \* _lock: 0 when free, else the video whose task holds it
    issued,             \* every completed increment() call, in completion order
    \* ---- one process_single_video task per video
    wpc,                \* where the task is ("stalled": in a call that hangs)
    outcome,            \* the future: "pending", "result", "none", "exception"
    result_summary,     \* the future's value when outcome is "result"
    dirs,               \* videos whose output directory exists
    images,             \* per video, the image files written
    json_files,         \* per video, the number of results_*.json written
    videoCap,           \* per video: "unset", "failed", "open", "released"
    frame_number,
    local_person_count,
    tracked_people,     \* dict, as the sequence of its (key, value) items
    detection_results,
    boxes,              \* the boxes of the current frame still to be visited
    loaded,             \* the value read by self._value += 1
    global_person_number,
    track_calls         \* frame numbers person_model.track was called on

vars == <<video_paths, max_workers_arg, cpu_count, opc, max_workers, submitted,
          collected, all_results, combined_results, combined_files,
          counter_value, counter_lock, issued, wpc, outcome, result_summary,
          dirs, images, json_files, videoCap, frame_number, local_person_count,
          tracked_people, detection_results, boxes, loaded,
          global_person_number, track_calls>>

orchVars == <<opc, max_workers, submitted, collected, all_results,
              combined_results, combined_files>>
inputVars == <<video_paths, max_workers_arg, cpu_count>>
counterVars == <<counter_value, counter_lock, issued>>
fileVars == <<dirs, images, json_files>>
loopVars == <<frame_number, local_person_count, tracked_people,
              detection_results, boxes, loaded, global_person_number,
              track_calls>>

\* ------------------------------------------------------------------ helpers
Min(a, b) == IF a <= b THEN a ELSE b

SeqsUpTo(S, n) == UNION {[1..k -> S] : k \in 0..n}

Videos == 1..Len(video_paths)

\* ------------------------------------------------------------ video content
\* How a tracked person can look in a frame: confidence just above or at
\* the threshold, person or other class, crop at or one below the minimum.
Appearances ==
    { [conf |-> PersonConf + 1, cls |-> PersonClass,     h |-> MinCrop,     w |-> MinCrop],
      [conf |-> PersonConf,     cls |-> PersonClass,     h |-> MinCrop,     w |-> MinCrop],
      [conf |-> PersonConf + 1, cls |-> PersonClass + 1, h |-> MinCrop,     w |-> MinCrop],
      [conf |-> PersonConf + 1, cls |-> PersonClass,     h |-> MinCrop - 1, w |-> MinCrop],
      [conf |-> PersonConf + 1, cls |-> PersonClass,     h |-> MinCrop,     w |-> MinCrop - 1] }

\* The track ids the tracker hands out: two people are enough to tell a
\* person seen again from a new one.
TrackIds == {1, 2}

BoxesOf(ids) ==
    { [track_id |-> t, conf |-> a.conf, cls |-> a.cls, h |-> a.h, w |-> a.w] :
        t \in ids, a \in Appearances }

\* The tracker's results for k consecutive sampled frames, at most budget
\* boxes in all.
RECURSIVE Contents(_, _, _)
Contents(B, k, budget) ==
    IF k = 0 THEN {<<>>}
    ELSE UNION { { <<s>> \o rest : rest \in Contents(B, k - 1, budget - Len(s)) } :
                 s \in SeqsUpTo(B, budget) }

\* A video file: whether it opens, how many frames it decodes, and what the
\* tracker sees on its sampled frames (scenes[k] on frame k * Stride).
Unopenable == [openable |-> FALSE, frames |-> 0, scenes |-> <<>>]

\* In a batch: a person large enough, one too small, one at the threshold.
BatchBoxes ==
    { b \in BoxesOf({1}) : b.cls = PersonClass /\ b.w = MinCrop }

BatchFiles ==
    {Unopenable} \cup
    { [openable |-> TRUE, frames |-> BatchFrames, scenes |-> c] :
      c \in [1..(BatchFrames \div Stride) -> {<<b>> : b \in BatchBoxes}] }

VideoFiles ==
    {Unopenable} \cup
    UNION { { [openable |-> TRUE, frames |-> F, scenes |-> c] :
              c \in Contents(BoxesOf(TrackIds), F \div Stride, MaxDetections) } :
            F \in 0..MaxFrames }

\* results of person_model.track on frame f of a file (line 93)
TrackResults(file, f) ==
    IF f % Stride = 0 /\ f \div Stride \in 1..Len(file.scenes)
    THEN file.scenes[f \div Stride]
    ELSE <<>>

\* --------------------------------------------------------- ThreadSafeCounter
\* with self._lock: the lock can be taken (line 20)
LockFreeNoLock == TRUE
LockFree == counter_lock = 0

\* leaving the with block releases the lock (lines 20-22)
StillHeldBy(v) == v
ReleasedBy(v) == 0

\* ------------------------------------------------------ process_single_video
File(v) == video_paths[v]

\* frame_number % 10 != 0: continue (lines 76-77)
SampledEveryFrame(f) == TRUE
Sampled(f) == f % Stride = 0

\* box.conf[0] > 0.4 and int(box.cls[0]) == 0 (line 98)
QualifiesAtThreshold(box) == box.conf >= PersonConf /\ box.cls = PersonClass
Qualifies(box) == box.conf > PersonConf /\ box.cls = PersonClass

\* person_roi.shape[0] < 50 or person_roi.shape[1] < 50 (line 115)
TooSmallBoth(box) == box.h < MinCrop /\ box.w < MinCrop
TooSmall(box) == box.h < MinCrop \/ box.w < MinCrop

\* a dict as the sequence of its items, in insertion order
DictKeys(d) == [i \in 1..Len(d) |-> d[i].key]
DictHas(d, k) == \E i \in 1..Len(d) : d[i].key = k
DictSet(d, k, val) ==
    IF DictHas(d, k)
    THEN [i \in 1..Len(d) |-> IF d[i].key = k THEN [key |-> k, value |-> val] ELSE d[i]]
    ELSE Append(d, [key |-> k, value |-> val])

\* track_id in tracked_people (line 102)
AlreadyTrackedNever(v, track_id) == FALSE
AlreadyTracked(v, track_id) == DictHas(tracked_people[v], track_id)

\* The while loop up to the next frame that is not skipped (lines 68-77):
\* the first frame from f on that is sampled, 0 when the stream ends first.
RECURSIVE NextSampled(_, _)
NextSampled(f, last) ==
    IF f > last THEN 0
    ELSE IF Sampled(f) THEN f
    ELSE NextSampled(f + 1, last)

\* the task ends with an exception: the future holds it
Raise(v) ==
    /\ wpc' = [wpc EXCEPT ![v] = "done"]
    /\ outcome' = [outcome EXCEPT ![v] = "exception"]

Running(v) == wpc[v] \notin {"unsubmitted", "queued", "done"}

\* A pool thread takes the next work item off the queue (FIFO); the pool
\* has at most max_workers threads (lines 226-230).
StartTask(v) ==
    /\ wpc[v] = "queued"
    /\ \A u \in Videos : wpc[u] = "queued" => v <= u
    /\ Cardinality({u \in Videos : Running(u)}) < max_workers
    /\ wpc' = [wpc EXCEPT ![v] = "makedirs"]
    /\ UNCHANGED <<inputVars, orchVars, counterVars, outcome, result_summary,
                   fileVars, videoCap, loopVars>>

\* os.makedirs(video_output_dir, exist_ok=True) (lines 35-37)
MakeDirs(v) ==
    /\ wpc[v] = "makedirs"
    /\ dirs' = dirs \cup {v}
    /\ wpc' = [wpc EXCEPT ![v] = "load_models"]
    /\ UNCHANGED <<inputVars, orchVars, counterVars, outcome, result_summary,
                   images, json_files, videoCap, loopVars>>

\* load_models() (lines 43-45)
LoadModels(v) ==
    /\ wpc[v] = "load_models"
    /\ wpc' = [wpc EXCEPT ![v] = "open"]
    /\ UNCHANGED <<inputVars, orchVars, counterVars, outcome, result_summary,
                   fileVars, videoCap, loopVars>>

\* load_models() raises
LoadModelsFault(v) ==
    /\ wpc[v] = "load_models"
    /\ Raise(v)
    /\ UNCHANGED <<inputVars, orchVars, counterVars, result_summary,
                   fileVars, videoCap, loopVars>>

\* cv2.VideoCapture(video_path); if not isOpened(): return None (lines 49-66)
OpenVideo(v) ==
    /\ wpc[v] = "open"
    /\ IF File(v).openable
       THEN /\ videoCap' = [videoCap EXCEPT ![v] = "open"]
            /\ detection_results' = [detection_results EXCEPT ![v] = <<>>]
            /\ tracked_people' = [tracked_people EXCEPT ![v] = <<>>]
            /\ local_person_count' = [local_person_count EXCEPT ![v] = 0]
            /\ frame_number' = [frame_number EXCEPT ![v] = 0]
            /\ wpc' = [wpc EXCEPT ![v] = "read"]
            /\ UNCHANGED outcome
       ELSE /\ videoCap' = [videoCap EXCEPT ![v] = "failed"]
            /\ wpc' = [wpc EXCEPT ![v] = "done"]
            /\ outcome' = [outcome EXCEPT ![v] = "none"]
            /\ UNCHANGED <<detection_results, tracked_people,
                           local_person_count, frame_number>>
    /\ UNCHANGED <<inputVars, orchVars, counterVars, result_summary, fileVars,
                   boxes, loaded, global_person_number, track_calls>>

\* videoCap.read() until a frame is sampled or the stream ends (lines 68-77)
ReadFrames(v) ==
    /\ wpc[v] = "read"
    /\ LET f == NextSampled(frame_number[v] + 1, File(v).frames) IN
         IF f = 0
         THEN /\ frame_number' = [frame_number EXCEPT ![v] = File(v).frames]
              /\ wpc' = [wpc EXCEPT ![v] = "release"]
         ELSE /\ frame_number' = [frame_number EXCEPT ![v] = f]
              /\ wpc' = [wpc EXCEPT ![v] = "track"]
    /\ UNCHANGED <<inputVars, orchVars, counterVars, outcome, result_summary,
                   fileVars, videoCap, local_person_count, tracked_people,
                   detection_results, boxes, loaded, global_person_number,
                   track_calls>>

\* results = person_model.track(frame, persist=True, verbose=False) (line 93)
Track(v) ==
    /\ wpc[v] = "track"
    /\ track_calls' = [track_calls EXCEPT ![v] = Append(@, frame_number[v])]
    /\ boxes' = [boxes EXCEPT ![v] = TrackResults(File(v), frame_number[v])]
    /\ wpc' = [wpc EXCEPT ![v] = "boxes"]
    /\ UNCHANGED <<inputVars, orchVars, counterVars, outcome, result_summary,
                   fileVars, videoCap, frame_number, local_person_count,
                   tracked_people, detection_results, loaded,
                   global_person_number>>

\* person_model.track raises
TrackFault(v) ==
    /\ wpc[v] = "track"
    /\ track_calls' = [track_calls EXCEPT ![v] = Append(@, frame_number[v])]
    /\ Raise(v)
    /\ UNCHANGED <<inputVars, orchVars, counterVars, result_summary,
                   fileVars, videoCap, frame_number, local_person_count,
                   tracked_people, detection_results, boxes, loaded,
                   global_person_number>>

\* person_model.track never returns (line 93)
TrackHangs(v) ==
    /\ wpc[v] = "track"
    /\ track_calls' = [track_calls EXCEPT ![v] = Append(@, frame_number[v])]
    /\ wpc' = [wpc EXCEPT ![v] = "stalled"]
    /\ UNCHANGED <<inputVars, orchVars, counterVars, outcome, result_summary,
                   fileVars, videoCap, frame_number, local_person_count,
                   tracked_people, detection_results, boxes, loaded,
                   global_person_number>>

\* One turn of the loop over the boxes (lines 95-105): the boxes are used
\* up, or the next one is skipped, or it is a new person and is counted.
VisitBox(v) ==
    /\ wpc[v] = "boxes"
    /\ IF boxes[v] = <<>>
       THEN /\ wpc' = [wpc EXCEPT ![v] = "read"]
            /\ UNCHANGED <<boxes, local_person_count>>
       ELSE IF Qualifies(Head(boxes[v]))
               /\ ~AlreadyTracked(v, Head(boxes[v]).track_id)
       THEN /\ local_person_count' = [local_person_count EXCEPT ![v] = @ + 1]
            /\ wpc' = [wpc EXCEPT ![v] = "incr_acquire"]
            /\ UNCHANGED boxes
       ELSE /\ boxes' = [boxes EXCEPT ![v] = Tail(@)]
            /\ UNCHANGED <<wpc, local_person_count>>
    /\ UNCHANGED <<inputVars, orchVars, counterVars, outcome, result_summary,
                   fileVars, videoCap, frame_number, tracked_people,
                   detection_results, loaded, global_person_number,
                   track_calls>>

\* global_person_counter.increment(): with self._lock (lines 106, 20)
IncrAcquire(v) ==
    /\ wpc[v] = "incr_acquire"
    /\ LockFree
    /\ counter_lock' = v
    /\ wpc' = [wpc EXCEPT ![v] = "incr_load"]
    /\ UNCHANGED <<inputVars, orchVars, counter_value, issued, outcome,
                   result_summary, fileVars, videoCap, loopVars>>

\* self._value += 1, the read (line 21)
IncrLoad(v) ==
    /\ wpc[v] = "incr_load"
    /\ loaded' = [loaded EXCEPT ![v] = counter_value]
    /\ wpc' = [wpc EXCEPT ![v] = "incr_store"]
    /\ UNCHANGED <<inputVars, orchVars, counterVars, outcome, result_summary,
                   fileVars, videoCap, frame_number, local_person_count,
                   tracked_people, detection_results, boxes,
                   global_person_number, track_calls>>

\* self._value += 1, the write (line 21)
IncrStore(v) ==
    /\ wpc[v] = "incr_store"
    /\ counter_value' = loaded[v] + 1
    /\ wpc' = [wpc EXCEPT ![v] = "incr_return"]
    /\ UNCHANGED <<inputVars, orchVars, counter_lock, issued, outcome,
                   result_summary, fileVars, videoCap, loopVars>>

\* return self._value, leaving the with block (line 22); the caller binds
\* global_person_number (line 106)
IncrReturn(v) ==
    /\ wpc[v] = "incr_return"
    /\ global_person_number' = [global_person_number EXCEPT ![v] = counter_value]
    /\ issued' = Append(issued, [video |-> v,
                                 track_id |-> Head(boxes[v]).track_id,
                                 value |-> counter_value])
    /\ counter_lock' = ReleasedBy(v)
    /\ wpc' = [wpc EXCEPT ![v] = "crop"]
    /\ UNCHANGED <<inputVars, orchVars, counter_value, outcome,
                   result_summary, fileVars, videoCap, frame_number,
                   local_person_count, tracked_people, detection_results,
                   boxes, loaded, track_calls>>

\* person_roi = frame[y1:y2, x1:x2]; too small: continue (lines 108-116)
Crop(v) ==
    /\ wpc[v] = "crop"
    /\ IF TooSmall(Head(boxes[v]))
       THEN /\ boxes' = [boxes EXCEPT ![v] = Tail(@)]
            /\ wpc' = [wpc EXCEPT ![v] = "boxes"]
       ELSE /\ wpc' = [wpc EXCEPT ![v] = "classify"]
            /\ UNCHANGED boxes
    /\ UNCHANGED <<inputVars, orchVars, counterVars, outcome, result_summary,
                   fileVars, videoCap, frame_number, local_person_count,
                   tracked_people, detection_results, loaded,
                   global_person_number, track_calls>>

\* detection_data (lines 153-167)
DetectionData(v, box, annotated) ==
    [ video_file |-> v,
      global_person_number |-> global_person_number[v],
      track_id |-> box.track_id,
      local_person_number |-> local_person_count[v],
      first_detected_frame |-> frame_number[v],
      person_confidence |-> box.conf,
      annotated_image |-> annotated ]

\* the image files of one detection (lines 139-150)
ImageFiles(v, box, annotated) ==
    { [kind |-> k, global |-> global_person_number[v],
       track_id |-> box.track_id, frame |-> frame_number[v]] :
      k \in IF annotated THEN {"person", "annotated"} ELSE {"person"} }

\* tracked_people[track_id] = detection_data;
\* detection_results.append(detection_data) (lines 169-170)
StoreShared(v, data) ==
    /\ tracked_people' = [u \in Videos |-> DictSet(tracked_people[u], data.track_id, data)]
    /\ detection_results' = [detection_results EXCEPT ![v] = Append(@, data)]
Store(v, data) ==
    /\ tracked_people' = [tracked_people EXCEPT ![v] = DictSet(@, data.track_id, data)]
    /\ detection_results' = [detection_results EXCEPT ![v] = Append(@, data)]

\* tshirt_model(person_roi), the images, the record (lines 119-173)
ClassifyAndRecord(v) ==
    /\ wpc[v] = "classify"
    /\ \E annotated \in BOOLEAN :
         LET box == Head(boxes[v]) IN
           /\ images' = [images EXCEPT ![v] = @ \cup ImageFiles(v, box, annotated)]
           /\ Store(v, DetectionData(v, box, annotated))
    /\ boxes' = [boxes EXCEPT ![v] = Tail(@)]
    /\ wpc' = [wpc EXCEPT ![v] = "boxes"]
    /\ UNCHANGED <<inputVars, orchVars, counterVars, outcome, result_summary,
                   dirs, json_files, videoCap, frame_number,
                   local_person_count, loaded, global_person_number,
                   track_calls>>

\* tshirt_model(person_roi) raises (line 119)
ClassifyFault(v) ==
    /\ wpc[v] = "classify"
    /\ Raise(v)
    /\ UNCHANGED <<inputVars, orchVars, counterVars, result_summary,
                   fileVars, videoCap, loopVars>>

\* tshirt_model(person_roi) never returns (line 119)
ClassifyHangs(v) ==
    /\ wpc[v] = "classify"
    /\ wpc' = [wpc EXCEPT ![v] = "stalled"]
    /\ UNCHANGED <<inputVars, orchVars, counterVars, outcome, result_summary,
                   fileVars, videoCap, loopVars>>

\* videoCap.release() (line 175)
Release(v) ==
    /\ wpc[v] = "release"
    /\ videoCap' = [videoCap EXCEPT ![v] = "released"]
    /\ wpc' = [wpc EXCEPT ![v] = "summary"]
    /\ UNCHANGED <<inputVars, orchVars, counterVars, outcome, result_summary,
                   fileVars, loopVars>>

\* result_summary (lines 182-197)
ResultSummaryEarly(v) ==
    [ video_file |-> v,
      total_unique_people_detected |-> 0,
      total_frames_processed |-> 0,
      tracking_ids_detected |-> <<>>,
      detection_results |-> <<>> ]
ResultSummary(v) ==
    [ video_file |-> v,
      total_unique_people_detected |-> local_person_count[v],
      total_frames_processed |-> frame_number[v],
      tracking_ids_detected |-> DictKeys(tracked_people[v]),
      detection_results |-> detection_results[v] ]

\* json.dump(result_summary, f); return result_summary (lines 200-207)
WriteSummary(v) ==
    /\ wpc[v] = "summary"
    /\ result_summary' = [result_summary EXCEPT ![v] = <<ResultSummary(v)>>]
    /\ json_files' = [json_files EXCEPT ![v] = @ + 1]
    /\ outcome' = [outcome EXCEPT ![v] = "result"]
    /\ wpc' = [wpc EXCEPT ![v] = "done"]
    /\ UNCHANGED <<inputVars, orchVars, counterVars, dirs, images, videoCap,
                   loopVars>>

\* --------------------------------------------------- process_multiple_videos
\* os.cpu_count() or 1
CpuOrOne == IF cpu_count = <<>> THEN 1 ELSE cpu_count[1]

\* if max_workers is None: min(len(video_paths), os.cpu_count() or 1, 4)
\* (lines 215-217)
ResolveWorkersNoCpu ==
    IF max_workers_arg = <<>>
    THEN Min(Len(video_paths), WorkerCap)
    ELSE max_workers_arg[1]
ResolveWorkers ==
    IF max_workers_arg = <<>>
    THEN Min(Len(video_paths), Min(CpuOrOne, WorkerCap))
    ELSE max_workers_arg[1]

\* Up to ThreadPoolExecutor(max_workers=max_workers) (lines 212-226); the
\* executor's constructor raises ValueError when max_workers <= 0.
CreatePool ==
    /\ opc = "start"
    /\ max_workers' = ResolveWorkers
    /\ opc' = IF ResolveWorkers <= 0 THEN "raised" ELSE "pool"
    /\ UNCHANGED <<inputVars, submitted, collected, all_results,
                   combined_results, combined_files, counterVars, wpc, outcome,
                   result_summary, fileVars, videoCap, loopVars>>

\* executor.submit(process_single_video, video_path, output_base_dir), one
\* video after the other (lines 228-231)
Submit ==
    /\ opc = "pool"
    /\ submitted < Len(video_paths)
    /\ submitted' = submitted + 1
    /\ wpc' = [wpc EXCEPT ![submitted + 1] = "queued"]
    /\ UNCHANGED <<inputVars, opc, max_workers, collected, all_results,
                   combined_results, combined_files, counterVars, outcome,
                   result_summary, fileVars, videoCap, loopVars>>

\* try: result = future.result(); if result: all_results.append(result)
\* except Exception (lines 238-246)
CollectResultAlways(v) ==
    Append(all_results,
           IF outcome[v] = "result" THEN result_summary[v][1]
           ELSE [video_file |-> v, total_unique_people_detected |-> 0])
CollectResult(v) ==
    IF outcome[v] = "result"
    THEN Append(all_results, result_summary[v][1])
    ELSE all_results

\* future.result() re-raises the task's exception; except Exception
\* catches it, so it does not leave the loop (lines 238-246)
PropagatesUncaught(v) == outcome[v] = "exception"
Propagates(v) == FALSE

\* One turn of for future in as_completed(future_to_video) (lines 234-246)
Collect(v) ==
    /\ opc = "pool"
    /\ submitted = Len(video_paths)
    /\ outcome[v] # "pending"
    /\ \A i \in 1..Len(collected) : collected[i] # v
    /\ collected' = Append(collected, v)
    /\ all_results' = CollectResult(v)
    /\ opc' = IF Propagates(v) THEN "raised" ELSE opc
    /\ UNCHANGED <<inputVars, max_workers, submitted, combined_results,
                   combined_files, counterVars, wpc, outcome, result_summary,
                   fileVars, videoCap, loopVars>>

\* sum(result['total_unique_people_detected'] for result in all_results)
\* (line 250)
TotalPeopleDetectedAsVideos(results) == Len(results)
RECURSIVE TotalPeopleDetected(_)
TotalPeopleDetected(results) ==
    IF results = <<>> THEN 0
    ELSE Head(results).total_unique_people_detected
         + TotalPeopleDetected(Tail(results))

\* combined_results (lines 250-263)
CombinedResults ==
    [ total_videos_processed |-> Len(all_results),
      total_videos_requested |-> Len(video_paths),
      max_workers_used |-> max_workers,
      total_people_detected_across_all_videos |-> TotalPeopleDetected(all_results),
      individual_video_results |-> all_results ]

\* as_completed has yielded every future, and the with block's shutdown
\* has waited for every task (lines 226-246)
LoopLeftEarly == TRUE
LoopLeft == Len(collected) = Len(video_paths)

\* as_completed is used up and the with block is left; the combined
\* summary is built, written and returned (lines 248-280)
Aggregate ==
    /\ opc = "pool"
    /\ submitted = Len(video_paths)
    /\ LoopLeft
    /\ combined_results' = <<CombinedResults>>
    /\ combined_files' = combined_files + 1
    /\ opc' = "done"
    /\ UNCHANGED <<inputVars, max_workers, submitted, collected, all_results,
                   counterVars, wpc, outcome, result_summary, fileVars,
                   videoCap, loopVars>>

\* ----------------------------------------------------------- specifications
\* The state when process_multiple_videos is entered with the given videos.
InitWith(paths) ==
    /\ video_paths = paths
    /\ opc = "start"
    /\ max_workers = 0
    /\ submitted = 0
    /\ collected = <<>>
    /\ all_results = <<>>
    /\ combined_results = <<>>
    /\ combined_files = 0
    /\ counter_value = 0
    /\ counter_lock = 0
    /\ issued = <<>>
    /\ wpc = [v \in DOMAIN paths |-> "unsubmitted"]
    /\ outcome = [v \in DOMAIN paths |-> "pending"]
    /\ result_summary = [v \in DOMAIN paths |-> <<>>]
    /\ dirs = {}
    /\ images = [v \in DOMAIN paths |-> {}]
    /\ json_files = [v \in DOMAIN paths |-> 0]
    /\ videoCap = [v \in DOMAIN paths |-> "unset"]
    /\ frame_number = [v \in DOMAIN paths |-> 0]
    /\ local_person_count = [v \in DOMAIN paths |-> 0]
    /\ tracked_people = [v \in DOMAIN paths |-> <<>>]
    /\ detection_results = [v \in DOMAIN paths |-> <<>>]
    /\ boxes = [v \in DOMAIN paths |-> <<>>]
    /\ loaded = [v \in DOMAIN paths |-> 0]
    /\ global_person_number = [v \in DOMAIN paths |-> 0]
    /\ track_calls = [v \in DOMAIN paths |-> <<>>]

\* max_workers as the main block passes it, or left to the default
WorkerArgs == {<<>>, <<MainWorkers>>}
\* os.cpu_count(): unknown (None), or two cores
CpuCounts == {<<>>, <<2>>}

\* A batch of up to MaxVideos short videos.
Init ==
    /\ max_workers_arg \in WorkerArgs
    /\ cpu_count \in CpuCounts
    /\ \E n \in 0..MaxVideos : \E paths \in [1..n -> BatchFiles] : InitWith(paths)

\* One video of up to MaxFrames frames, taken alone.
InitVideo ==
    /\ max_workers_arg = <<>>
    /\ cpu_count = <<>>
    /\ \E paths \in [1..1 -> VideoFiles] : InitWith(paths)

Next ==
    \/ CreatePool
    \/ Submit
    \/ Aggregate
    \/ \E v \in Videos : Collect(v)
    \/ \E v \in Videos : StartTask(v)
    \/ \E v \in Videos : MakeDirs(v)
    \/ \E v \in Videos : LoadModels(v)
    \/ \E v \in Videos : LoadModelsFault(v)
    \/ \E v \in Videos : OpenVideo(v)
    \/ \E v \in Videos : ReadFrames(v)
    \/ \E v \in Videos : Track(v)
    \/ \E v \in Videos : TrackFault(v)
    \/ \E v \in Videos : TrackHangs(v)
    \/ \E v \in Videos : VisitBox(v)
    \/ \E v \in Videos : IncrAcquire(v)
    \/ \E v \in Videos : IncrLoad(v)
    \/ \E v \in Videos : IncrStore(v)
    \/ \E v \in Videos : IncrReturn(v)
    \/ \E v \in Videos : Crop(v)
    \/ \E v \in Videos : ClassifyAndRecord(v)
    \/ \E v \in Videos : ClassifyFault(v)
    \/ \E v \in Videos : ClassifyHangs(v)
    \/ \E v \in Videos : Release(v)
    \/ \E v \in Videos : WriteSummary(v)

Spec == Init /\ [][Next]_vars
SpecVideo == InitVideo /\ [][Next]_vars

\* Videos that show a person large enough to crop, so that every task
\* calls increment() and both models.
FairFiles ==
    { f \in BatchFiles :
        /\ f.openable
        /\ \A i \in 1..Len(f.scenes) : \A j \in 1..Len(f.scenes[i]) :
             Qualifies(f.scenes[i][j]) /\ ~TooSmall(f.scenes[i][j]) }

\* The pool size is left to the default of lines 215-217.
InitFair ==
    /\ max_workers_arg = <<>>
    /\ cpu_count \in CpuCounts
    /\ \E n \in 0..MaxVideos : \E paths \in [1..n -> FairFiles] : InitWith(paths)

\* Whatever the pool thread running task v does next: a step of the code,
\* an exception out of a model, or a model call that hangs.
TaskStep(v) ==
    \/ StartTask(v) \/ MakeDirs(v) \/ LoadModels(v) \/ LoadModelsFault(v)
    \/ OpenVideo(v) \/ ReadFrames(v)
    \/ Track(v) \/ TrackFault(v) \/ TrackHangs(v)
    \/ VisitBox(v)
    \/ IncrAcquire(v) \/ IncrLoad(v) \/ IncrStore(v) \/ IncrReturn(v)
    \/ Crop(v)
    \/ ClassifyAndRecord(v) \/ ClassifyFault(v) \/ ClassifyHangs(v)
    \/ Release(v) \/ WriteSummary(v)

\* The main thread and every pool thread keep being scheduled: a thread
\* that can take a step eventually takes one.
Fairness ==
    /\ WF_vars(CreatePool)
    /\ WF_vars(Submit)
    /\ \A v \in 1..MaxVideos : WF_vars(v \in Videos /\ TaskStep(v))

SpecFair == InitFair /\ [][Next]_vars /\ Fairness

\* Two videos of two sampled frames each, every frame showing one person
\* large enough to crop, processed side by side as the main block runs
\* them (max_workers = 3).
PairFiles ==
    LET seen == { b \in BoxesOf(TrackIds) : Qualifies(b) /\ ~TooSmall(b) }
    IN  { [openable |-> TRUE, frames |-> 2 * Stride, scenes |-> c] :
          c \in [1..2 -> {<<b>> : b \in seen}] }

InitPair ==
    /\ max_workers_arg = <<MainWorkers>>
    /\ cpu_count = <<>>
    /\ \E paths \in [1..2 -> PairFiles] : InitWith(paths)

SpecPair == InitPair /\ [][Next]_vars

\* ------------------------------------------------------------------- claims
\* What the claims call a qualifying detection and an adequate crop.
IsQualifying(box) == box.cls = 0 /\ box.conf > 4
IsAdequate(box) == box.h >= 50 /\ box.w >= 50

\* The task has left the frame loop by stream exhaustion.
LoopEnded(v) == wpc[v] \in {"release", "summary"} \/ outcome[v] = "result"

\* The boxes the tracker returned to the task so far, each with its
\* frame, in the order the task meets them.
FrameBoxes(v, f) ==
    [i \in 1..Len(TrackResults(File(v), f)) |->
        [frame |-> f, box |-> TrackResults(File(v), f)[i]]]

RECURSIVE OfferedFrom(_, _)
OfferedFrom(v, calls) ==
    IF calls = <<>> THEN <<>>
    ELSE FrameBoxes(v, Head(calls)) \o OfferedFrom(v, Tail(calls))

\* The qualifying occurrences of track id t in video v, in order.
Occurrences(v, t) ==
    LET Mine(o) == o.box.track_id = t /\ IsQualifying(o.box)
    IN  SelectSeq(OfferedFrom(v, track_calls[v]), Mine)

\* The index of the first occurrence with an adequate crop, 0 if none.
FirstAdequate(occ) ==
    LET A == {i \in 1..Len(occ) : IsAdequate(occ[i].box)}
    IN  IF A = {} THEN 0 ELSE CHOOSE i \in A : \A j \in A : i <= j

RecordsOf(v, t) ==
    LET Mine(r) == r.track_id = t IN SelectSeq(detection_results[v], Mine)

\* The completed increment() calls made for track id t of video v.
Attempts(v, t) ==
    Cardinality({i \in 1..Len(issued) :
                   issued[i].video = v /\ issued[i].track_id = t})

\* C1: the values increment() returns, in the order the calls complete, are
\* 1, 2, 3, ...: each one more than the one before, the first 1, none twice,
\* whatever the interleaving of the tasks.
C1_IssuedDense ==
    \A i \in 1..Len(issued) : issued[i].value = i

\* Two tasks running at the same time have each been issued a number.
C1_Witness ==
    /\ Len(issued) = 2
    /\ issued[1].video # issued[2].video
    /\ issued[2].value = 2
    /\ \A i \in 1..2 : Running(issued[i].video)

\* C2: detection_results never holds two records of the same track id.
C2_OneRecordPerTrack ==
    \A v \in Videos :
      \A i, j \in 1..Len(detection_results[v]) :
        i # j => detection_results[v][i].track_id # detection_results[v][j].track_id

\* A track id was recorded on one sampled frame and met again, qualifying
\* and large enough, on the next.
C2_Witness ==
    \E v \in Videos : \E t \in TrackIds :
      /\ LoopEnded(v)
      /\ Len(Occurrences(v, t)) = 2
      /\ \A i \in 1..2 : IsAdequate(Occurrences(v, t)[i].box)
      /\ Len(detection_results[v]) = 1

\* C3 as claimed: a track id that qualifies on more than one sampled frame
\* of a video read to its end has exactly one record, and the record's
\* first_detected_frame is the frame of its first qualifying occurrence.
C3_FirstQualifyingOccurrence ==
    \A v \in Videos : \A t \in TrackIds :
      LET occ == Occurrences(v, t) IN
        (LoopEnded(v) /\ Cardinality({occ[i].frame : i \in 1..Len(occ)}) > 1)
        => /\ Len(RecordsOf(v, t)) = 1
           /\ RecordsOf(v, t)[1].first_detected_frame = occ[1].frame

\* C3 as amended: when a video has been read to its end, a track id has
\* exactly one record if one of its qualifying occurrences has an adequate
\* crop (both dimensions >= 50) and none otherwise, and the record's
\* first_detected_frame is the frame of the first qualifying occurrence
\* whose crop is adequate.
C3_FirstAdequateOccurrence ==
    \A v \in Videos : \A t \in TrackIds :
      LET occ == Occurrences(v, t)
          k == FirstAdequate(occ)
      IN  LoopEnded(v)
          => IF k = 0
             THEN RecordsOf(v, t) = <<>>
             ELSE /\ Len(RecordsOf(v, t)) = 1
                  /\ RecordsOf(v, t)[1].first_detected_frame = occ[k].frame

\* A track id qualified on two sampled frames, too small on the first and
\* large enough on the second, and was recorded from the second.
C3_Witness ==
    \E v \in Videos : \E t \in TrackIds :
      LET occ == Occurrences(v, t) IN
        /\ LoopEnded(v)
        /\ Len(occ) = 2
        /\ occ[1].frame < occ[2].frame
        /\ ~IsAdequate(occ[1].box)
        /\ IsAdequate(occ[2].box)
        /\ Len(RecordsOf(v, t)) = 1
        /\ RecordsOf(v, t)[1].first_detected_frame = occ[2].frame

Faulted == {v \in Videos : outcome[v] = "exception"}
Succeeded == {v \in Videos : outcome[v] = "result"}

\* C4: when exactly one of the N tasks raises and the other N-1 return
\* their results, process_multiple_videos does not raise, and the combined
\* result it returns counts N-1 videos processed and lists the results of
\* exactly those N-1 videos, each once, in whatever order they completed.
C4_FaultIsolated ==
    (Cardinality(Faulted) = 1 /\ Cardinality(Succeeded) = Len(video_paths) - 1)
    => /\ opc # "raised"
       /\ opc = "done" =>
            LET c == combined_results[1]
                r == c.individual_video_results
            IN  /\ c.total_videos_processed = Len(video_paths) - 1
                /\ Len(r) = Len(video_paths) - 1
                /\ \A v \in Faulted : \A i \in 1..Len(r) : r[i].video_file # v
                /\ \A v \in Succeeded :
                     Cardinality({i \in 1..Len(r) : r[i] = result_summary[v][1]}) = 1

\* Of two videos, the one submitted first raised after the other had
\* returned its result, and the run has returned.
C4_Witness ==
    /\ Len(video_paths) = 2
    /\ Faulted = {1}
    /\ Succeeded = {2}
    /\ collected = <<2, 1>>
    /\ opc = "done"

\* C5: in detection_results order the local_person_number values are
\* strictly increasing, and the first record's is 1.
C5_LocalNumbersFromOne ==
    \A v \in Videos :
      LET r == detection_results[v] IN
        /\ \A i, j \in 1..Len(r) :
             i < j => r[i].local_person_number < r[j].local_person_number
        /\ r # <<>> => r[1].local_person_number = 1

\* Nothing is kept for a crop that is too small: every record, every
\* tracked_people entry and every image comes from a qualifying box of its
\* frame whose crop is adequate.
FromAdequateBox(v, t, f) ==
    \E i \in 1..Len(TrackResults(File(v), f)) :
      LET box == TrackResults(File(v), f)[i] IN
        box.track_id = t /\ IsQualifying(box) /\ IsAdequate(box)

\* C6: a qualifying detection whose crop has a dimension below 50 leaves no
\* record, no tracked_people entry and no image, so the track id is still
\* eligible: when the video has been read to its end, increment() was called
\* for every qualifying occurrence of the track id up to and including the
\* first one with an adequate crop (for all of them if there is none).
C6_RejectedStaysEligible ==
    \A v \in Videos :
      /\ \A i \in 1..Len(detection_results[v]) :
           LET r == detection_results[v][i]
           IN  FromAdequateBox(v, r.track_id, r.first_detected_frame)
      /\ \A i \in 1..Len(tracked_people[v]) :
           LET e == tracked_people[v][i]
           IN  /\ e.key = e.value.track_id
               /\ FromAdequateBox(v, e.key, e.value.first_detected_frame)
      /\ \A img \in images[v] : FromAdequateBox(v, img.track_id, img.frame)
      /\ LoopEnded(v) =>
           \A t \in TrackIds :
             LET occ == Occurrences(v, t)
                 k == FirstAdequate(occ)
             IN  Attempts(v, t) = IF k = 0 THEN Len(occ) ELSE k

\* A track id was rejected for its crop on one sampled frame and processed
\* again on the next, where it was rejected again.
C6_Witness ==
    \E v \in Videos : \E t \in TrackIds :
      LET occ == Occurrences(v, t) IN
        /\ LoopEnded(v)
        /\ Len(occ) = 2
        /\ occ[1].frame < occ[2].frame
        /\ FirstAdequate(occ) = 0
        /\ Attempts(v, t) = 2
        /\ tracked_people[v] = <<>>
        /\ images[v] = {}

\* The number of records of videos 1..n.
RECURSIVE RecordCount(_)
RecordCount(n) ==
    IF n = 0 THEN 0 ELSE Len(detection_results[n]) + RecordCount(n - 1)

\* C7: increment() is called at most once for a (video, track id) pair, and
\* once every task has read its video to the end the number of global
\* numbers issued is the number of records produced.
C7_OneNumberPerRecord ==
    /\ \A v \in Videos : \A t \in TrackIds : Attempts(v, t) <= 1
    /\ (\A v \in Videos : LoopEnded(v)) =>
         Len(issued) = RecordCount(Len(video_paths))

\* C8: the tracker is only ever called on frames whose 1-based index is a
\* multiple of 10, on no frame twice, and when a video of F frames has been
\* read to its end it was called on frames 10, 20, ..., 10 * floor(F / 10).
C8_EveryTenthFrame ==
    \A v \in Videos :
      /\ \A i \in 1..Len(track_calls[v]) : track_calls[v][i] = 10 * i
      /\ \A i \in 1..Len(track_calls[v]) : track_calls[v][i] <= File(v).frames
      /\ LoopEnded(v) => Len(track_calls[v]) = File(v).frames \div 10

\* A video of 19 frames was read to its end: the tracker saw frame 10 only.
C8_Witness ==
    \E v \in Videos :
      /\ LoopEnded(v)
      /\ File(v).frames = 19
      /\ frame_number[v] = 19
      /\ track_calls[v] = <<10>>

\* C9: a task that returned None because its video did not open has
\* written nothing for the video, no directory, no image and no JSON file,
\* and its video is not among the collected results.
C9_OpenFailureLeavesNothing ==
    \A v \in Videos :
      outcome[v] = "none"
      => /\ v \notin dirs
         /\ images[v] = {}
         /\ json_files[v] = 0
         /\ \A i \in 1..Len(all_results) : all_results[i].video_file # v

\* C10: a task that has settled, however it ended, holds no open video
\* stream.
C10_StreamReleased ==
    \A v \in Videos : wpc[v] = "done" => videoCap[v] # "open"

\* ---- the pool ----

\* the tasks a pool thread is executing
Executing == {v \in Videos : wpc[v] \notin {"unsubmitted", "queued", "done"}}

\* min(number of videos, CPU count, 4), an unknown CPU count taken as one
PolicyMinimum ==
    LET cpus == IF cpu_count = <<>> THEN 1 ELSE cpu_count[1]
        n == Len(video_paths)
    IN  IF n <= cpus /\ n <= 4 THEN n ELSE IF cpus <= 4 THEN cpus ELSE 4

\* C11 (as stated): at no time do more tasks execute than
\* min(number of videos, CPU count, 4), whether max_workers is passed
\* or not and whether or not the list is empty.
C11_WithinPolicyMinimum ==
    Cardinality(Executing) <= PolicyMinimum

\* C11 (amended): at no time do more tasks execute than the pool size,
\* which is min(number of videos, CPU count or 1, 4) only when max_workers
\* is not passed and is the passed value otherwise; with an empty list and
\* no max_workers the pool is never created and the call raises.
C11_WithinPoolSize ==
    /\ Cardinality(Executing)
         <= (IF max_workers_arg = <<>> THEN PolicyMinimum ELSE max_workers_arg[1])
    /\ (max_workers_arg = <<>> /\ Len(video_paths) = 0) => opc \in {"start", "raised"}
    /\ opc = "raised" => (max_workers_arg = <<>> /\ Len(video_paths) = 0)

\* Two videos on a machine of unknown CPU count, max_workers = 3 passed:
\* both tasks execute at once, one more than the policy's minimum.
C11_Witness ==
    /\ max_workers_arg = <<3>>
    /\ cpu_count = <<>>
    /\ Len(video_paths) = 2
    /\ Executing = {1, 2}

\* ---- collecting ----

NotProcessed == {v \in Videos : outcome[v] \in {"none", "exception"}}

RECURSIVE SumOfTotals(_, _)
SumOfTotals(r, n) ==
    IF n = 0 THEN 0
    ELSE r[n].total_unique_people_detected + SumOfTotals(r, n - 1)

\* C13: in the combined summary the total of people is the sum of
\* total_unique_people_detected over individual_video_results, the number
\* of videos processed is the length of that list, and the number
\* requested is the number of input videos.
C13_CombinedTotals ==
    opc = "done" =>
        LET c == combined_results[1]
            r == c.individual_video_results
        IN  /\ c.total_people_detected_across_all_videos = SumOfTotals(r, Len(r))
            /\ c.total_videos_processed = Len(r)
            /\ c.total_videos_requested = Len(video_paths)
            /\ \A i \in 1..Len(r) :
                 r[i].total_unique_people_detected = local_person_count[r[i].video_file]

\* Two videos run at once, one with a person and one without: the list has
\* two results and the total is 1.
C13_Witness ==
    /\ opc = "done"
    /\ max_workers >= 2
    /\ Len(combined_results[1].individual_video_results) = 2
    /\ \E i, j \in 1..2 :
         /\ combined_results[1].individual_video_results[i].total_unique_people_detected = 1
         /\ combined_results[1].individual_video_results[j].total_unique_people_detected = 0
    /\ combined_results[1].total_people_detected_across_all_videos = 1

\* C14: the combined file is never written twice, it is written only when
\* every submitted task has settled and been collected, and a call that
\* has returned has written it.
C14_CombinedWrittenOnceAfterAll ==
    /\ combined_files <= 1
    /\ combined_files = 1 =>
         /\ submitted = Len(video_paths)
         /\ \A v \in Videos :
              /\ wpc[v] = "done"
              /\ outcome[v] # "pending"
              /\ \E i \in 1..Len(collected) : collected[i] = v
    /\ combined_files = 1 <=> opc = "done"

\* The file is written after two tasks that both returned a result.
C14_Witness ==
    /\ combined_files = 1
    /\ Len(video_paths) = 2
    /\ \A v \in Videos : outcome[v] = "result"

\* ---- the counter's lock and blocking calls ----

\* where a task is inside a stream read, a model call or a file write
Blocking == {"makedirs", "load_models", "open", "read", "track", "classify",
             "release", "summary", "stalled"}

\* C15: a task that is in a stream read, a model call or a file write does
\* not hold the counter's lock; the lock is held only between the
\* acquisition and the return of increment().
C15_NoLockWhileBlocking ==
    \A v \in Videos :
        /\ wpc[v] \in Blocking => counter_lock # v
        /\ counter_lock = v => wpc[v] \in {"incr_load", "incr_store", "incr_return"}

\* One task is in the t-shirt model, having taken its number, while the
\* other holds the lock.
C15_Witness ==
    \E v, u \in Videos :
        /\ wpc[v] = "classify"
        /\ global_person_number[v] > 0
        /\ u # v
        /\ counter_lock = u

\* ---- stalls and waiting ----

Stalled == {v \in Videos : wpc[v] = "stalled"}

\* C16 (as stated): when the model call of one task hangs and no other
\* does, every other video is eventually processed to its end, whatever
\* the pool size.
C16_OthersFinish ==
    \A u \in 1..MaxVideos :
        <>( \/ u \notin Videos
            \/ opc = "raised"
            \/ wpc[u] = "done"
            \/ wpc[u] = "stalled"
            \/ Cardinality(Stalled) >= 2 )

\* C16 (amended): when the model call of one task hangs and no other does,
\* every other video is eventually processed to its end provided the pool
\* has at least two threads.
C16_OthersFinishWithTwoThreads ==
    \A u \in 1..MaxVideos :
        <>( \/ u \notin Videos
            \/ opc = "raised"
            \/ wpc[u] = "done"
            \/ wpc[u] = "stalled"
            \/ Cardinality(Stalled) >= 2
            \/ (opc # "start" /\ max_workers < 2) )

\* In a pool of at least two threads the first task hangs in a model call
\* and the second video has been processed to its end.
C16_Witness ==
    /\ Len(video_paths) >= 2
    /\ max_workers >= 2
    /\ Stalled = {1}
    /\ outcome[2] = "result"
    /\ json_files[2] = 1

\* C17: a task that has called increment() and waits for the lock
\* eventually has its number returned.
C17_IncrementReturns ==
    \A v \in 1..MaxVideos :
        (v \in Videos /\ wpc[v] = "incr_acquire")
            ~> (v \in Videos /\ wpc[v] = "crop" /\ global_person_number[v] > 0)

\* The first task waits for the lock while the second holds it, between
\* reading the counter and writing it back.
C17_Witness ==
    /\ Len(video_paths) >= 2
    /\ wpc[1] = "incr_acquire"
    /\ counter_lock = 2
    /\ wpc[2] = "incr_store"

\* ---- the per-video summary ----

\* C18: the summary file of a video is never written twice; it is written
\* only when the stream has been read to its end and released and the
\* VideoResult holds everything the loop produced; a task that returned a
\* result has written it, and a task that ended with a stream that did not
\* open or with an exception has written none.
C18_SummaryWrittenOnceAtEnd ==
    \A v \in Videos :
        /\ json_files[v] <= 1
        /\ json_files[v] = 1 =>
             /\ video_paths[v].openable
             /\ frame_number[v] = video_paths[v].frames
             /\ videoCap[v] = "released"
             /\ boxes[v] = <<>>
             /\ result_summary[v] # <<>>
             /\ result_summary[v][1].total_frames_processed = video_paths[v].frames
             /\ result_summary[v][1].total_unique_people_detected = local_person_count[v]
             /\ result_summary[v][1].detection_results = detection_results[v]
             /\ Len(result_summary[v][1].tracking_ids_detected) = Len(tracked_people[v])
        /\ outcome[v] = "result" => json_files[v] = 1
        /\ outcome[v] \in {"none", "exception"} => json_files[v] = 0
        /\ outcome[v] = "pending" => json_files[v] = 0

\* A video of twenty frames with two people recorded has its summary
\* written.
C18_Witness ==
    /\ json_files[1] = 1
    /\ video_paths[1].frames = 20
    /\ Len(detection_results[1]) = 2
    /\ outcome[1] = "result"

\* C19: a step never removes or changes an entry of a task's
\* tracked_people and never shortens it; the table changes only in a step
\* of its own task, the one that stores a record; and a written summary
\* lists in tracking_ids_detected the track ids of its detection_results,
\* in the same order.
C19_TableOnlyGrows ==
    [][ \A v \in Videos :
          /\ Len(tracked_people'[v]) >= Len(tracked_people[v])
          /\ \A i \in 1..Len(tracked_people[v]) :
               tracked_people'[v][i] = tracked_people[v][i]
          /\ tracked_people'[v] # tracked_people[v] =>
               /\ wpc[v] = "classify"
               /\ wpc'[v] = "boxes"
               /\ Len(detection_results'[v]) = Len(detection_results[v]) + 1
               /\ \A u \in Videos \ {v} :
                    wpc'[u] = wpc[u] /\ tracked_people'[u] = tracked_people[u]
          /\ outcome'[v] = "result" =>
               LET r == result_summary'[v][1] IN
                 /\ Len(r.tracking_ids_detected) = Len(r.detection_results)
                 /\ \A i \in 1..Len(r.detection_results) :
                      r.tracking_ids_detected[i] = r.detection_results[i].track_id
      ]_vars

\* The first video's summary lists track 2 before track 1, as recorded,
\* while the second task has an entry of its own for track 2.
C19_Witness ==
    /\ outcome[1] = "result"
    /\ result_summary[1][1].tracking_ids_detected = <<2, 1>>
    /\ Len(result_summary[1][1].detection_results) = 2
    /\ Running(2)
    /\ Len(tracked_people[2]) = 1
    /\ tracked_people[2][1].key = 2

\* C20: in a written summary total_unique_people_detected is the number of
\* DetectionRecords and the number of tracking ids.
C20_TotalIsRecordCount ==
    \A v \in Videos :
        outcome[v] = "result" =>
            LET r == result_summary[v][1] IN
              /\ r.total_unique_people_detected = Len(r.detection_results)
              /\ r.total_unique_people_detected = Len(r.tracking_ids_detected)

====
